---- MODULE Spec2Model ----
(***************************************************************************)
(* A model of QtAwesome/iconic_font.py: the IconicFont manager (charmap,   *)
(* fontname and painters tables), the CharIconEngine objects it hands out, *)
(* and the CharIconPainter that draws them.                                *)
(*                                                                         *)
(* Python objects are modelled by reference: every dict that an engine     *)
(* holds lives at an address of `heap`, and an engine holds addresses.     *)
(* Python dicts are functions whose DOMAIN is the set of keys.  A str is a *)
(* sequence of fragments whose concatenation is the string; the fragment   *)
(* "." is the one-character string '.', and no other fragment holds a '.'. *)
(***************************************************************************)
EXTENDS Integers, Sequences, FiniteSets, TLC

VARIABLES
    charmap,    \* IconicFont.charmap : prefix -> (name -> character)
    fontname,   \* IconicFont.fontname: prefix -> family name
    painters,   \* IconicFont.painters: name -> custom painter object
    heap,       \* the dicts alive in the process: address -> dict
    engines,    \* the CharIconEngine objects of the icons the caller holds, oldest first
    last        \* the most recent call: its arguments and what it did

vars == <<charmap, fontname, painters, heap, engines, last>>

----------------------------------------------------------------------------
(* Bounds of the model. *)

\* the number of icons the caller holds at one time
MaxIcons == 1
\* the number of icons the caller holds at one time, in SpecPair
MaxPairIcons == 2
\* the most '.' separators in a fullname given to icon()
MaxDots == 2
\* the most fullnames given to icon_stack()
MaxStack == 2

----------------------------------------------------------------------------
(* Python dict helpers. *)

EmptyDict == <<>>

\* d[k] = v
Put(d, k, v) == (k :> v) @@ d

\* dict(base, **over): a new dict, `over` winning on common keys
Merge(base, over) == over @@ base

----------------------------------------------------------------------------
(* The files of the fonts directory and what the toolkit makes of them. *)

Prefixes == {"a", "custom"}
Names == {"x", "y"}
TtfFiles == {"fa.ttf", "el.ttf", "bad.ttf"}
CharmapFiles == {"fa.json", "el.json", "missing.json"}

\* open(...) succeeds
FileExists(f) == f \notin {"missing.ttf", "missing.json"}

\* QFontDatabase.applicationFontFamilies(addApplicationFontFromData(data))
applicationFontFamilies(ttf) ==
    CASE ttf = "fa.ttf" -> <<"FontAwesome">>
      [] ttf = "el.ttf" -> <<"Elusive">>
      [] OTHER -> <<>>

\* the JSON object of a charmap file: name -> hexadecimal digits
CharmapText(f) ==
    CASE f = "fa.json" -> [x |-> <<15, 0, 1, 5>>, y |-> <<15, 0, 0, 6>>]
      [] f = "el.json" -> [y |-> <<15, 1, 0, 0>>]
      [] OTHER -> EmptyDict

\* int(s, 16)
RECURSIVE HexToInt(_)
HexToInt(digits) ==
    IF digits = <<>> THEN 0
    ELSE 16 * HexToInt(SubSeq(digits, 1, Len(digits) - 1)) + digits[Len(digits)]

\* json.load(codes, object_hook=lambda o: {k: unichr(int(o[k], 16)) for k in o})
LoadCharmap(f) == [k \in DOMAIN CharmapText(f) |-> HexToInt(CharmapText(f)[k])]

----------------------------------------------------------------------------
(* str.split('.') *)

RECURSIVE split(_)
split(s) ==
    IF s = <<>> THEN <<"">>
    ELSE LET parts == split(SubSeq(s, 1, Len(s) - 1))
             c == s[Len(s)]
             n == Len(parts)
         IN  IF c = "." THEN Append(parts, "")
             ELSE [parts EXCEPT ![n] = parts[n] \o c]

RECURSIVE SeqsUpTo(_, _)
SeqsUpTo(S, n) ==
    IF n = 0 THEN {<<>>}
    ELSE LET shorter == SeqsUpTo(S, n - 1)
         IN  shorter \cup {Append(s, e) : s \in shorter, e \in S}

\* '.'.join(parts), as fragments
RECURSIVE Join(_)
Join(parts) ==
    IF Len(parts) <= 1 THEN parts
    ELSE Join(SubSeq(parts, 1, Len(parts) - 1)) \o <<".", parts[Len(parts)]>>

\* the fullnames given to icon(): '', and a prefix followed by up to MaxDots names
\* ("b" is a prefix no font is ever loaded under)
Fullnames ==
    {<<>>} \cup
    {Join(parts) : parts \in {q \in SeqsUpTo(Prefixes \cup Names \cup {"b"}, MaxDots + 1) :
                                 /\ q # <<>>
                                 /\ q[1] \in Prefixes \cup {"b"}
                                 /\ \A i \in 2..Len(q) : q[i] \in Names}}

\* prefix + '.' + name
Dotted(prefix, name) == <<prefix, ".", name>>

----------------------------------------------------------------------------

(* The module-level _default_options dict and the option dicts callers pass. *)

\* the address of the module's _default_options dict
DefaultsAt == 0

\* QColor(50, 50, 50); 'scale-factor' is held in tenths, 9 for 0.9
_default_options == ("color" :> <<50, 50, 50>>) @@ ("scale-factor" :> 9)

Red == <<255, 0, 0>>
Blue == <<0, 0, 255>>

\* the keyword arguments of icon(fullname, **kwargs)
Kwargs == {
    EmptyDict,
    ("color" :> Red) @@ ("color-disabled" :> Blue) @@ ("char-active" :> 33) }

\* keyword arguments of icon() that name a parameter of _icon_by_name
CollidingKwargs == {("prefix" :> "z")}

\* the options argument of icon_stack: None, one dict, or a list of dicts
StackOptions == {
    [kind |-> "none", dicts |-> <<>>],
    [kind |-> "dict", dicts |-> <<("color-selected" :> Red) @@ ("char-selected" :> 34)>>],
    [kind |-> "list", dicts |-> <<("color" :> Red), ("char-disabled" :> 33)>>] }

\* the fullnames argument of icon_stack
StackFullnames == {Dotted("a", "x"), Dotted("custom", "y")}

StackInputs == SeqsUpTo(StackFullnames, MaxStack)

\* the names and the user's painter objects given to set_custom_icon
CustomNames == {"x"}
CustomPainters == {"P1", "P2"}

\* QIcon.Mode
Modes == {"Normal", "Disabled", "Active", "Selected"}

\* rect.height() of the rects the toolkit paints into
RectHeights == {15, 16}

----------------------------------------------------------------------------
(* The heap. *)

\* the address a newly built dict gets
NewAddr(h) == CHOOSE a \in 1..(Cardinality(DOMAIN h) + 1) : a \notin DOMAIN h

\* an engine's options: one dict, or a list of dicts (isinstance(options, list))
NoEngine == [painter |-> "none", list |-> FALSE, at |-> <<>>]

Raise(e, h) == [exc |-> e, heap |-> h, engine |-> NoEngine]

\* QIcon(): the null icon
NullIcon(h) == [exc |-> "", heap |-> h, engine |-> NoEngine]

----------------------------------------------------------------------------
(* IconicFont *)

\* load_font(prefix, ttf_filename, charmap_filename): the tables afterwards
load_font(cm, fn, prefix, ttf, codes) ==
    IF ~FileExists(ttf) \/ ~FileExists(codes)
    THEN [exc |-> "IOError", charmap |-> cm, fontname |-> fn]
    ELSE LET loadedFontFamilies == applicationFontFamilies(ttf)
         IN  [exc |-> "",
              charmap |-> Put(cm, prefix, LoadCharmap(codes)),
              fontname |-> IF loadedFontFamilies # <<>>
                           THEN Put(fn, prefix, loadedFontFamilies[1])
                           ELSE fn]

\* set_custom_icon(name, painter)
set_custom_icon(pt, name, painter) == Put(pt, name, painter)

\* font(prefix, size): QFont(self.fontname[prefix]) with its pixel size set
font(fn, prefix, size) ==
    IF prefix \in DOMAIN fn
    THEN [exc |-> "", font |-> [family |-> fn[prefix], pixelSize |-> size]]
    ELSE [exc |-> "KeyError", font |-> [family |-> "", pixelSize |-> 0]]

\* _icon_by_painter(painter, options): QIcon(CharIconEngine(self, painter, options))
_icon_by_painter(h, painter, isList, at) ==
    [exc |-> "", heap |-> h, engine |-> [painter |-> painter, list |-> isList, at |-> at]]

\* a variant that updates _default_options in place and hands it to the engine
_icon_by_char_inplace(h, prefix, character, kwargs) ==
    IF {"self", "prefix", "character", "char"} \cap DOMAIN kwargs # {}
    THEN Raise("TypeError", h)
    ELSE LET options == Merge(Merge(h[DefaultsAt], ("char" :> character) @@ ("prefix" :> prefix)),
                              kwargs)
         IN  _icon_by_painter(Put(h, DefaultsAt, options), "CharIconPainter", FALSE,
                              <<DefaultsAt>>)

\* _icon_by_char(prefix, character, **kwargs): a keyword that names a parameter of
\* the method, or one that dict() is given twice, is a TypeError
_icon_by_char(h, prefix, character, kwargs) ==
    IF {"self", "prefix", "character", "char"} \cap DOMAIN kwargs # {}
    THEN Raise("TypeError", h)
    ELSE LET a == NewAddr(h)
             options == Merge(Merge(h[DefaultsAt], ("char" :> character) @@ ("prefix" :> prefix)),
                              kwargs)
         IN  _icon_by_painter(Put(h, a, options), "CharIconPainter", FALSE, <<a>>)

\* a variant that binds the manager's own painter to a custom icon
_custom_icon_own_painter(pt, h, name, kwargs) ==
    LET a == NewAddr(h)
        options == Merge(h[DefaultsAt], kwargs)
    IN  IF {"self", "name"} \cap DOMAIN kwargs # {} THEN Raise("TypeError", h)
        ELSE IF name \in DOMAIN pt
        THEN _icon_by_painter(Put(h, a, options), "CharIconPainter", FALSE, <<a>>)
        ELSE NullIcon(h)

\* _custom_icon(name, **kwargs): a keyword that names a parameter is a TypeError
_custom_icon(pt, h, name, kwargs) ==
    LET a == NewAddr(h)
        options == Merge(h[DefaultsAt], kwargs)
    IN  IF {"self", "name"} \cap DOMAIN kwargs # {} THEN Raise("TypeError", h)
        ELSE IF name \in DOMAIN pt
        THEN _icon_by_painter(Put(h, a, options), pt[name], FALSE, <<a>>)
        ELSE NullIcon(h)

\* a variant that indexes the charmap without the membership test
_icon_by_name_unchecked(cm, pt, h, prefix, name, kwargs) ==
    IF {"self", "prefix", "name"} \cap DOMAIN kwargs # {} THEN Raise("TypeError", h)
    ELSE IF prefix = "custom" THEN _custom_icon(pt, h, name, kwargs)
    ELSE IF prefix \notin DOMAIN cm \/ name \notin DOMAIN cm[prefix] THEN Raise("KeyError", h)
    ELSE _icon_by_char(h, prefix, cm[prefix][name], kwargs)

\* _icon_by_name(prefix, name, **kwargs): a keyword that names a parameter is a
\* TypeError, signalled as the call is bound
_icon_by_name(cm, pt, h, prefix, name, kwargs) ==
    IF {"self", "prefix", "name"} \cap DOMAIN kwargs # {} THEN Raise("TypeError", h)
    ELSE IF prefix = "custom" THEN _custom_icon(pt, h, name, kwargs)
    ELSE IF prefix \notin DOMAIN cm THEN Raise("KeyError", h)
    ELSE IF name \in DOMAIN cm[prefix]
         THEN _icon_by_char(h, prefix, cm[prefix][name], kwargs)
         ELSE NullIcon(h)

\* a variant that unpacks fullname.split('.', 1)
icon_maxsplit(cm, pt, h, fullname, kwargs) ==
    LET parts == split(fullname)
    IN  IF {"self", "fullname"} \cap DOMAIN kwargs # {} THEN Raise("TypeError", h)
        ELSE IF Len(parts) < 2 THEN Raise("ValueError", h)
        ELSE _icon_by_name(cm, pt, h, parts[1], parts[2], kwargs)

\* icon(fullname, **kwargs): a keyword that names a parameter is a TypeError, signalled
\* before the body runs
icon(cm, pt, h, fullname, kwargs) ==
    LET parts == split(fullname)
    IN  IF {"self", "fullname"} \cap DOMAIN kwargs # {} THEN Raise("TypeError", h)
        ELSE IF Len(parts) # 2 THEN Raise("ValueError", h)
        ELSE _icon_by_name(cm, pt, h, parts[1], parts[2], kwargs)

\* zip(*lists): as many tuples as the shortest list has items
Zip(lists) ==
    IF lists = <<>> THEN <<>>
    ELSE LET m == CHOOSE k \in {Len(lists[i]) : i \in DOMAIN lists} :
                      \A i \in DOMAIN lists : k <= Len(lists[i])
         IN  [j \in 1..m |-> [i \in DOMAIN lists |-> lists[i][j]]]

\* the list comprehension of _icon_stack_by_char: one new dict per layer
RECURSIVE StackDicts(_, _, _, _, _)
StackDicts(h, prefixes, chars, opts, i) ==
    IF i > Len(chars) THEN [exc |-> "", heap |-> h, at |-> <<>>]
    ELSE IF i > Len(opts) THEN [exc |-> "IndexError", heap |-> h, at |-> <<>>]
    ELSE IF {"char", "prefix"} \cap DOMAIN opts[i] # {}
    THEN [exc |-> "TypeError", heap |-> h, at |-> <<>>]
    ELSE LET a == NewAddr(h)
             d == Merge(Merge(h[DefaultsAt],
                              ("prefix" :> prefixes[i]) @@ ("char" :> chars[i])),
                        opts[i])
             rest == StackDicts(Put(h, a, d), prefixes, chars, opts, i + 1)
         IN  [rest EXCEPT !.at = <<a>> \o @]

\* _icon_stack_by_char(prefixes, chars, options)
_icon_stack_by_char(h, prefixes, chars, options) ==
    LET opts == CASE options.kind = "none" -> [i \in 1..Len(chars) |-> EmptyDict]
                  [] options.kind = "dict" -> [i \in 1..Len(chars) |-> options.dicts[1]]
                  [] OTHER -> options.dicts
        built == StackDicts(h, prefixes, chars, opts, 1)
    IN  IF built.exc # "" THEN Raise(built.exc, h)
        ELSE _icon_by_painter(built.heap, "CharIconPainter", TRUE, built.at)

\* _icon_stack_by_name(prefixes, names, options)
_icon_stack_by_name(cm, h, prefixes, names, options) ==
    IF \E i \in DOMAIN prefixes :
           prefixes[i] \notin DOMAIN cm \/ names[i] \notin DOMAIN cm[prefixes[i]]
    THEN Raise("KeyError", h)
    ELSE _icon_stack_by_char(h, prefixes,
                             [i \in DOMAIN prefixes |-> cm[prefixes[i]][names[i]]], options)

\* icon_stack(fullnames, options)
icon_stack(cm, h, fullnames, options) ==
    LET prefixes_names == Zip([i \in DOMAIN fullnames |-> split(fullnames[i])])
    IN  IF Len(prefixes_names) # 2 THEN Raise("TypeError", h)
        ELSE _icon_stack_by_name(cm, h, prefixes_names[1], prefixes_names[2], options)

----------------------------------------------------------------------------
(* The drawing surface (QPainter) and CharIconPainter *)

\* a QPainter as the toolkit hands it over
NewSurface ==
    [pen |-> <<0, 0, 0>>, font |-> [family |-> "default", pixelSize |-> 0],
     saved |-> <<>>, drawn |-> <<>>, saves |-> 0, restores |-> 0]

\* QPainter.save()
save(s) == [s EXCEPT !.saved = Append(@, [pen |-> s.pen, font |-> s.font]), !.saves = @ + 1]

\* QPainter.restore()
restore(s) ==
    LET top == s.saved[Len(s.saved)]
    IN  [s EXCEPT !.pen = top.pen, !.font = top.font,
                  !.saved = SubSeq(@, 1, Len(@) - 1), !.restores = @ + 1]

\* A double that is a multiple of 2^-64 is held as the natural it is 2^64 times, in
\* digits of base 2^16, least significant first: digits 1 to 4 are its fraction.

\* l + v * 2^(16 * (i - 1))
RECURSIVE Add(_, _, _)
Add(l, i, v) ==
    IF v = 0 THEN l
    ELSE IF i > Len(l) THEN Append(l, v)
    ELSE Add([l EXCEPT ![i] = (l[i] + v) % 65536], i + 1, (l[i] + v) \div 65536)

\* l * n + carry, for n below 2^15
RECURSIVE Times(_, _, _)
Times(l, n, carry) ==
    IF l = <<>> THEN (IF carry = 0 THEN <<>> ELSE <<carry>>)
    ELSE <<(l[1] * n + carry) % 65536>> \o Times(Tail(l), n, (l[1] * n + carry) \div 65536)

\* one step of the long division by d: the quotient and remainder `hi` of the higher
\* digits, then the next digit
DivStep(hi, digit, d) ==
    [q |-> <<(65536 * hi.r + digit) \div d>> \o hi.q, r |-> (65536 * hi.r + digit) % d]

\* the quotient and the remainder of l by d, for d below 2^15
RECURSIVE DivMod(_, _)
DivMod(l, d) ==
    IF l = <<>> THEN [q |-> <<>>, r |-> 0]
    ELSE DivStep(DivMod(Tail(l), d), l[1], d)

\* the number of binary digits of a digit n > 0
BitLen(n) == CHOOSE k \in 1..16 : 2^(k - 1) <= n /\ n < 2^k

\* binary digit k of l, the least significant being digit 0
Bit(l, k) == (l[k \div 16 + 1] \div 2^(k % 16)) % 2

\* the place of the most significant digit of l that is not 0, 0 when l is 0
RECURSIVE Top(_)
Top(l) ==
    IF l = <<>> THEN 0
    ELSE IF l[Len(l)] # 0 THEN Len(l)
    ELSE Top(SubSeq(l, 1, Len(l) - 1))

\* whether l, or the little more it stands for when sticky, has anything below its
\* binary digit k
Below(l, sticky, k) ==
    \/ sticky
    \/ (l[k \div 16 + 1] % 2^(k % 16)) # 0
    \/ \E i \in 1..(k \div 16) : l[i] # 0

\* l without its s least significant binary digits
Kept(l, s) ==
    [i \in DOMAIN l |-> IF i < s \div 16 + 1 THEN 0
                        ELSE IF i = s \div 16 + 1 THEN l[i] - (l[i] % 2^(s % 16))
                        ELSE l[i]]

\* l rounded to a multiple of 2^s, ties to the even multiple
RoundAt(l, sticky, s) ==
    IF s <= 0 THEN l
    ELSE IF Bit(l, s - 1) = 1 /\ (Below(l, sticky, s - 1) \/ Bit(l, s) = 1)
    THEN Add(Kept(l, s), s \div 16 + 1, 2^(s % 16))
    ELSE Kept(l, s)

\* the nearest double to l, or to a little more than l when sticky, ties to the even
\* significand: the 53 most significant binary digits are kept
Round53(l, sticky) ==
    IF Top(l) = 0 THEN l
    ELSE RoundAt(l, sticky, 16 * (Top(l) - 1) + BitLen(l[Top(l)]) - 53)

\* the nearest double to a quotient whose division left the remainder dm.r
RoundQuotient(dm) == Round53(dm.q, dm.r > 0)

\* the double of the literal n/d, for n below 2^16 and n/d >= 2^-11
Double(n, d) == RoundQuotient(DivMod(<<0, 0, 0, 0, n>>, d))

\* float(n) * x
Mul(n, x) == Round53(Times(x, n, 0), FALSE)

\* x + 0.5
PlusHalf(x) == Round53(Add(x \o [i \in 1..(4 - Len(x)) |-> 0], 4, 32768), FALSE)

\* int(x), for 0 <= x < 2^31
Floor(x) ==
    (IF Len(x) >= 5 THEN x[5] ELSE 0) + (IF Len(x) >= 6 THEN 65536 * x[6] ELSE 0)

\* int(height * scale + 0.5) in doubles, for 0 <= height < 2^15 and the scale literal
\* tenths/10
RoundedProduct(height, tenths) == Floor(PlusHalf(Mul(height, Double(tenths, 10))))

\* RoundedProduct at the scale of _default_options for the heights up to the largest
\* of RectHeights, as a tuple, which is worked out once
DefaultDrawSizes ==
    LET tallest == CHOOSE h \in RectHeights : \A g \in RectHeights : g <= h
    IN  SubSeq([h \in 1..tallest |-> RoundedProduct(h, _default_options["scale-factor"])],
               1, tallest)

\* qRound(height * scale): Qt's qRound(d) is int(d + 0.5) for d >= 0
qRound(height, tenths) ==
    IF tenths = _default_options["scale-factor"] /\ height \in DOMAIN DefaultDrawSizes
    THEN DefaultDrawSizes[height]
    ELSE RoundedProduct(height, tenths)

\* a variant whose Selected branch is missing
StateValue_no_selected(options, key, mode) ==
    LET suffix == CASE mode = "Disabled" -> "-disabled"
                    [] mode = "Active" -> "-active"
                    [] OTHER -> ""
    IN  IF suffix # "" /\ (key \o suffix) \in DOMAIN options
        THEN options[key \o suffix]
        ELSE options[key]

\* the colour and the glyph _paint_icon picks for a mode
StateValue(options, key, mode) ==
    LET suffix == CASE mode = "Disabled" -> "-disabled"
                    [] mode = "Active" -> "-active"
                    [] mode = "Selected" -> "-selected"
                    [] OTHER -> ""
    IN  IF suffix # "" /\ (key \o suffix) \in DOMAIN options
        THEN options[key \o suffix]
        ELSE options[key]

\* QPainter.setPen(color)
setPen(s, color) == [s EXCEPT !.pen = color]

\* QPainter.setFont(font)
setFont(s, f) == [s EXCEPT !.font = f]

\* QPainter.drawText(rect, flags, char): the glyph, with the pen and the font set
drawText(s, rect, char) ==
    [s EXCEPT !.drawn = Append(@, [rect |-> rect, char |-> char, pen |-> s.pen,
                                   font |-> s.font])]

\* CharIconPainter._paint_icon(awesome, painter, rect, mode, state, options)
_paint_icon(fn, surface, rect, mode, options) ==
    IF ~({"color", "char"} \subseteq DOMAIN options)
    THEN [exc |-> "KeyError", surface |-> save(surface)]
    ELSE LET s2 == setPen(save(surface), StateValue(options, "color", mode))
         IN  IF ~({"scale-factor", "prefix"} \subseteq DOMAIN options)
             THEN [exc |-> "KeyError", surface |-> s2]
             ELSE LET drawSize == qRound(rect, options["scale-factor"])
                      f == font(fn, options["prefix"], drawSize)
                  IN  IF f.exc # "" THEN [exc |-> f.exc, surface |-> s2]
                      ELSE [exc |-> "",
                            surface |-> restore(drawText(setFont(s2, f.font), rect,
                                                         StateValue(options, "char", mode)))]

\* the loop of CharIconPainter.paint over a list of options, from layer i on
RECURSIVE PaintLayers(_, _, _, _, _, _, _)
PaintLayers(fn, h, surface, rect, mode, at, i) ==
    IF i > Len(at) THEN [exc |-> "", surface |-> surface]
    ELSE LET r == _paint_icon(fn, surface, rect, mode, h[at[i]])
         IN  IF r.exc # "" THEN r
             ELSE PaintLayers(fn, h, r.surface, rect, mode, at, i + 1)

\* a variant that paints a list of options last to first
CharIconPainter_paint_reversed(fn, h, surface, rect, mode, isList, at) ==
    IF isList
    THEN PaintLayers(fn, h, surface, rect, mode, [i \in DOMAIN at |-> at[Len(at) + 1 - i]], 1)
    ELSE _paint_icon(fn, surface, rect, mode, h[at[1]])

\* CharIconPainter.paint(awesome, painter, rect, mode, state, options)
CharIconPainter_paint(fn, h, surface, rect, mode, isList, at) ==
    IF isList THEN PaintLayers(fn, h, surface, rect, mode, at, 1)
    ELSE _paint_icon(fn, surface, rect, mode, h[at[1]])

\* CharIconEngine.paint(painter, rect, mode, state): the bound painter's paint is
\* called with the captured options.  A custom painter is the user's code: the
\* model records that it was called and leaves the surface as it was.
CharIconEngine_paint(fn, h, engine, surface, rect, mode) ==
    IF engine.painter = "CharIconPainter"
    THEN LET r == CharIconPainter_paint(fn, h, surface, rect, mode, engine.list, engine.at)
         IN  [exc |-> r.exc, surface |-> r.surface, invoked |-> engine.painter,
              with |-> engine.at]
    ELSE [exc |-> "", surface |-> surface, invoked |-> engine.painter, with |-> engine.at]

----------------------------------------------------------------------------
(* The calls the application and the toolkit make. *)

\* what the most recent call was, how it ended, and the icon it returned (0: none)
Result(op, exc, k) == [op |-> op, exc |-> exc, icon |-> k]

\* IconicFont(): empty tables, the module's defaults, no icon yet
Init ==
    /\ charmap = EmptyDict
    /\ fontname = EmptyDict
    /\ painters = EmptyDict
    /\ heap = (DefaultsAt :> _default_options)
    /\ engines = <<>>
    /\ last = Result("init", "", 0)

LoadFontOf(prefixes, ttfs, codesFiles) ==
    \E prefix \in prefixes, ttf \in ttfs, codes \in codesFiles :
        LET r == load_font(charmap, fontname, prefix, ttf, codes)
        IN  /\ charmap' = r.charmap
            /\ fontname' = r.fontname
            /\ last' = Result("load_font", r.exc, 0)
            /\ UNCHANGED <<painters, heap, engines>>

SetCustomIcon ==
    \E name \in CustomNames, painter \in CustomPainters :
        /\ painters' = set_custom_icon(painters, name, painter)
        /\ last' = Result("set_custom_icon", "", 0)
        /\ UNCHANGED <<charmap, fontname, heap, engines>>

Font ==
    \E prefix \in Prefixes, size \in RectHeights :
        /\ last' = Result("font", font(fontname, prefix, size).exc, 0)
        /\ UNCHANGED <<charmap, fontname, painters, heap, engines>>

\* the caller keeps the icon a call returned, when it holds fewer than cap icons
\* (a null icon has no engine and nothing to keep)
Keep(op, r, cap) ==
    IF r.engine = NoEngine
    THEN /\ last' = Result(op, r.exc, 0)
         /\ UNCHANGED <<heap, engines>>
    ELSE /\ Len(engines) < cap
         /\ engines' = Append(engines, r.engine)
         /\ heap' = r.heap
         /\ last' = Result(op, r.exc, Len(engines) + 1)

IconOf(fullnames, cap) ==
    \E fullname \in fullnames, kwargs \in Kwargs \cup CollidingKwargs :
        /\ Keep("icon", icon(charmap, painters, heap, fullname, kwargs), cap)
        /\ UNCHANGED <<charmap, fontname, painters>>

IconStackOf(inputs, cap) ==
    \E fullnames \in inputs, options \in StackOptions :
        /\ Keep("icon_stack", icon_stack(charmap, heap, fullnames, options), cap)
        /\ UNCHANGED <<charmap, fontname, painters>>

\* the toolkit paints an icon the caller holds, on a QPainter of its own; pixmap()
\* is this same call on a new QPainter over the whole pixmap
Paint ==
    \E k \in DOMAIN engines, rect \in RectHeights, mode \in Modes :
        LET r == CharIconEngine_paint(fontname, heap, engines[k], NewSurface, rect, mode)
        IN  /\ last' = Result("paint", r.exc, k)
            /\ UNCHANGED <<charmap, fontname, painters, heap, engines>>

\* the caller drops the icon it was given last: its engine and the dicts only it
\* holds are collected.  (Icons do not act on each other, so every set of icons held
\* in whatever order of dropping is, up to the naming of addresses, one that is held
\* after dropping the latest first.)
Release ==
    /\ engines # <<>>
    /\ LET k == Len(engines)
           gone == {engines[k].at[i] : i \in DOMAIN engines[k].at} \ {DefaultsAt}
       IN  /\ engines' = SubSeq(engines, 1, k - 1)
           /\ heap' = [a \in DOMAIN heap \ gone |-> heap[a]]
    /\ last' = Result("release", "", 0)
    /\ UNCHANGED <<charmap, fontname, painters>>

\* every font and charmap file under the prefix "a"; one font under "custom"
LoadFont ==
    \/ LoadFontOf({"a"}, TtfFiles, CharmapFiles)
    \/ LoadFontOf({"custom"}, {"fa.ttf"}, {"fa.json"})

Icon == IconOf(Fullnames, MaxIcons)

\* the manager's tables and the icons icon() returns
Next ==
    \/ LoadFont
    \/ SetCustomIcon
    \/ Font
    \/ Icon
    \/ Paint
    \/ Release

Spec == Init /\ [][Next]_vars

----------------------------------------------------------------------------
(* Stacked icons. *)

\* a font with and without a usable family, a charmap with and without "x", under
\* the prefix "a"; one font under "custom"
StackLoadFont ==
    \/ LoadFontOf({"a"}, {"fa.ttf", "bad.ttf"}, {"fa.json", "el.json"})
    \/ LoadFontOf({"custom"}, {"fa.ttf"}, {"fa.json"})

IconStack == IconStackOf(StackInputs, MaxIcons)

NextStack ==
    \/ StackLoadFont
    \/ IconStack
    \/ Paint
    \/ Release

SpecStack == Init /\ [][NextStack]_vars

----------------------------------------------------------------------------
(* Several icons held at once, over fewer files and names. *)

PairLoadFont == LoadFontOf({"a"}, {"fa.ttf", "bad.ttf"}, {"fa.json"})

PairIcon == IconOf({Dotted("a", "x"), Dotted("custom", "x")}, MaxPairIcons)

PairIconStack == IconStackOf({<<Dotted("a", "x"), Dotted("a", "y")>>}, MaxPairIcons)

NextPair ==
    \/ PairLoadFont
    \/ SetCustomIcon
    \/ PairIcon
    \/ PairIconStack
    \/ Paint
    \/ Release

SpecPair == Init /\ [][NextPair]_vars

----------------------------------------------------------------------------
(* CharIconPainter over every combination of per-mode override keys. *)

OverrideKeys ==
    {"color-disabled", "char-disabled", "color-active", "char-active",
     "color-selected", "char-selected"}

\* the value an override key is given: a colour for color-*, a character for char-*
OverrideValue(key) ==
    CASE key = "color-disabled" -> <<1, 1, 1>>
      [] key = "color-active" -> <<2, 2, 2>>
      [] key = "color-selected" -> <<3, 3, 3>>
      [] key = "char-disabled" -> 101
      [] key = "char-active" -> 102
      [] OTHER -> 103

\* the state after load_font('a', 'fa.ttf', 'fa.json') and either
\* icon('a.x', **overrides) or icon_stack(['a.x', 'a.y'], [overrides, {}])
InitPaint ==
    /\ charmap = load_font(EmptyDict, EmptyDict, "a", "fa.ttf", "fa.json").charmap
    /\ fontname = load_font(EmptyDict, EmptyDict, "a", "fa.ttf", "fa.json").fontname
    /\ painters = EmptyDict
    /\ \E keys \in SUBSET OverrideKeys, stacked \in BOOLEAN :
           LET overrides == [k \in keys |-> OverrideValue(k)]
               h0 == (DefaultsAt :> _default_options)
               r == IF stacked
                    THEN icon_stack(charmap, h0, <<Dotted("a", "x"), Dotted("a", "y")>>,
                                    [kind |-> "list", dicts |-> <<overrides, EmptyDict>>])
                    ELSE icon(charmap, painters, h0, Dotted("a", "x"), overrides)
           IN  /\ heap = r.heap
               /\ engines = <<r.engine>>
    /\ last = Result("init", "", 0)

SpecPaint == InitPaint /\ [][Paint]_vars

----------------------------------------------------------------------------
(* Properties. *)

AllPrefixes == Prefixes \cup {"b"}

\* the number of '.' in a fullname
Dots(fullname) == Cardinality({i \in DOMAIN fullname : fullname[i] = "."})

\* an icon with an engine was returned
NonEmpty(r) == r.exc = "" /\ r.engine # NoEngine

\* the null icon was returned and nothing was signalled
Empty(r) == r.exc = "" /\ r.engine = NoEngine

\* C1 as stated: in every state, icon('prefix.name') is a non-empty icon when name is
\* in the charmap loaded for prefix, and an empty icon with no error for every other
\* name, a name under a prefix that was never loaded included.
C1_IconNeverSignals ==
    \A prefix \in AllPrefixes, name \in Names :
        LET r == icon(charmap, painters, heap, Dotted(prefix, name), EmptyDict)
        IN  IF prefix \in DOMAIN charmap /\ name \in DOMAIN charmap[prefix]
            THEN NonEmpty(r)
            ELSE Empty(r)

\* C1 amended: in every state, for a prefix other than 'custom' that load_font has
\* loaded, icon('prefix.name') is non-empty exactly when name is in the prefix's
\* charmap and is otherwise the empty icon with no error; for 'custom' it is non-empty
\* exactly when a painter is registered under name and otherwise empty with no error;
\* for any other prefix it signals KeyError.
C1_IconByName ==
    \A prefix \in AllPrefixes, name \in Names, kwargs \in Kwargs :
        LET r == icon(charmap, painters, heap, Dotted(prefix, name), kwargs)
        IN  CASE prefix = "custom" ->
                    IF name \in DOMAIN painters THEN NonEmpty(r) ELSE Empty(r)
              [] prefix # "custom" /\ prefix \in DOMAIN charmap ->
                    IF name \in DOMAIN charmap[prefix] THEN NonEmpty(r) ELSE Empty(r)
              [] OTHER -> r.exc = "KeyError" /\ r.engine = NoEngine

\* icon() has just returned the empty icon while "a" is loaded with a charmap that
\* has "y" but not "x"
C1_Witness ==
    /\ last.op = "icon" /\ last.exc = "" /\ last.icon = 0
    /\ "a" \in DOMAIN charmap
    /\ "y" \in DOMAIN charmap["a"]
    /\ "x" \notin DOMAIN charmap["a"]

\* a fullname of icon_stack that names no glyph: its name is absent from the charmap
\* of its loaded prefix, or it uses 'custom' while no charmap is loaded under it
Unknown(fullname) ==
    LET parts == split(fullname)
    IN  \/ parts[1] = "custom" /\ "custom" \notin DOMAIN charmap
        \/ parts[1] \in DOMAIN charmap /\ parts[2] \notin DOMAIN charmap[parts[1]]

\* C2 as stated: in every state, icon_stack over fullnames of which one is unknown
\* signals no error and returns the empty icon.
C2_StackTolerant ==
    \A fullnames \in StackInputs, options \in StackOptions :
        (\E i \in DOMAIN fullnames : Unknown(fullnames[i]))
            => Empty(icon_stack(charmap, heap, fullnames, options))

\* C8: in every state, icon(fullname) signals ValueError, builds no engine and no
\* dict, when fullname has zero or more than one '.', and signals no ValueError when
\* it has exactly one; and a call of icon() that ended in ValueError changed no table
\* of the manager, no dict and no engine.
C8_ValueErrorOnSeparators ==
    /\ [](\A fullname \in Fullnames, kwargs \in Kwargs :
            LET r == icon(charmap, painters, heap, fullname, kwargs)
            IN  IF Dots(fullname) = 1
                THEN r.exc # "ValueError"
                ELSE r.exc = "ValueError" /\ r.engine = NoEngine /\ r.heap = heap)
    /\ [][last'.op = "icon" /\ last'.exc = "ValueError"
            => UNCHANGED <<charmap, fontname, painters, heap, engines>>]_vars

\* icon() has just signalled ValueError
C8_Witness == last.op = "icon" /\ last.exc = "ValueError"

\* C3 as stated: in every state, a load_font of an already loaded prefix that returns
\* leaves the prefix with exactly the new charmap, leaves every name that only the
\* old charmap had unresolvable, and, when the new font is not the one recorded for
\* the prefix, leaves the prefix without the family name of the earlier load.
C3_ReloadReplaces ==
    \A prefix \in DOMAIN charmap, ttf \in TtfFiles, codes \in CharmapFiles :
        LET r == load_font(charmap, fontname, prefix, ttf, codes)
        IN  r.exc = "" =>
              /\ r.charmap[prefix] = LoadCharmap(codes)
              /\ \A name \in DOMAIN charmap[prefix] \ DOMAIN LoadCharmap(codes) :
                     name \notin DOMAIN r.charmap[prefix]
              /\ (prefix \in DOMAIN fontname
                    /\ applicationFontFamilies(ttf) # <<fontname[prefix]>>)
                   => ~(prefix \in DOMAIN r.fontname
                           /\ r.fontname[prefix] = fontname[prefix])

\* C4 as stated: in every state, a load_font given a font with no usable family
\* leaves the prefix with no recorded family, and font(prefix, size) then signals
\* KeyError for every size.
C4_FailedLoadUnregisters ==
    \A prefix \in Prefixes, ttf \in TtfFiles, codes \in CharmapFiles :
        LET r == load_font(charmap, fontname, prefix, ttf, codes)
        IN  (r.exc = "" /\ applicationFontFamilies(ttf) = <<>>) =>
              /\ prefix \notin DOMAIN r.fontname
              /\ \A size \in RectHeights : font(r.fontname, prefix, size).exc = "KeyError"

\* the options key that overrides `key` in a mode other than Normal
OverrideKey ==
    [Disabled |-> [color |-> "color-disabled", char |-> "char-disabled"],
     Active |-> [color |-> "color-active", char |-> "char-active"],
     Selected |-> [color |-> "color-selected", char |-> "char-selected"]]

\* the value the painter is to use for `key` in a mode
Expected(options, key, mode) ==
    IF mode # "Normal" /\ OverrideKey[mode][key] \in DOMAIN options
    THEN options[OverrideKey[mode][key]]
    ELSE options[key]

\* C5: for every icon of the default painter, every mode and every layer, the pen
\* colour and the glyph drawn are options['color'] and options['char'] in mode
\* Normal, and in another mode the values of 'color-<mode>' and 'char-<mode>' where
\* the options have that key, each falling back to 'color' / 'char' on its own.
C5_StateOverrides ==
    \A k \in DOMAIN engines : engines[k].painter = "CharIconPainter" =>
        \A rect \in RectHeights, mode \in Modes :
            LET r == CharIconEngine_paint(fontname, heap, engines[k], NewSurface, rect, mode)
                at == engines[k].at
            IN  /\ r.exc = ""
                /\ Len(r.surface.drawn) = Len(at)
                /\ \A i \in DOMAIN at :
                       /\ r.surface.drawn[i].pen = Expected(heap[at[i]], "color", mode)
                       /\ r.surface.drawn[i].char = Expected(heap[at[i]], "char", mode)

\* an icon has just been painted whose options override the colour but not the glyph
\* for Disabled, the glyph but not the colour for Active, and both for Selected
C5_Witness ==
    /\ last.op = "paint" /\ last.exc = ""
    /\ \E a \in DOMAIN heap :
           /\ {"color-disabled", "char-active", "color-selected", "char-selected"}
                  \subseteq DOMAIN heap[a]
           /\ "char-disabled" \notin DOMAIN heap[a]
           /\ "color-active" \notin DOMAIN heap[a]

\* the options icon_stack is to give layer i
LayerOptions(options, i) ==
    CASE options.kind = "none" -> EmptyDict
      [] options.kind = "dict" -> options.dicts[1]
      [] OTHER -> options.dicts[i]

\* icon_stack(fullnames, options) over resolvable names builds one engine of the
\* default painter with one options dict per fullname, in input order, each the
\* defaults, the prefix and glyph of its fullname, and its own options
StackBuilt ==
    \A fullnames \in StackInputs, options \in StackOptions :
        LET n == Len(fullnames)
            parts == [i \in 1..n |-> split(fullnames[i])]
        IN  (/\ n >= 1
             /\ \A i \in 1..n : /\ parts[i][1] \in DOMAIN charmap
                                /\ parts[i][2] \in DOMAIN charmap[parts[i][1]]
             /\ options.kind = "list" => Len(options.dicts) >= n)
            => \A r \in {icon_stack(charmap, heap, fullnames, options)} :
                 /\ NonEmpty(r)
                 /\ r.engine.painter = "CharIconPainter"
                 /\ r.engine.list
                 /\ Len(r.engine.at) = n
                 /\ \A i \in 1..n :
                       r.heap[r.engine.at[i]] =
                           Merge(Merge(_default_options,
                                       ("prefix" :> parts[i][1])
                                           @@ ("char" :> charmap[parts[i][1]][parts[i][2]])),
                                 LayerOptions(options, i))

\* the glyphs a paint of engine k draws are those of its first `count` layers, in
\* order, each into rect with the font of its layer's prefix
DrawsLayers(k, r, rect, mode, count) ==
    /\ Len(r.surface.drawn) = count
    /\ \A i \in 1..count :
           LET layer == heap[engines[k].at[i]]
           IN  /\ r.surface.drawn[i].rect = rect
               /\ r.surface.drawn[i].char = Expected(layer, "char", mode)
               /\ r.surface.drawn[i].font.family = fontname[layer["prefix"]]

\* C6 as stated: icon_stack over n resolvable names builds n layers in input order
\* with their options, and each paint of a stacked icon draws exactly its n glyphs
\* into the same rect, in order.
C6_StackPaintsAllLayers ==
    /\ StackBuilt
    /\ \A k \in DOMAIN engines : engines[k].list =>
           \A rect \in RectHeights, mode \in Modes :
               LET r == CharIconEngine_paint(fontname, heap, engines[k], NewSurface,
                                             rect, mode)
               IN  r.exc = "" /\ DrawsLayers(k, r, rect, mode, Len(engines[k].at))

\* the layers of engine k whose prefix has no recorded family
Fontless(k) ==
    {i \in DOMAIN engines[k].at : heap[engines[k].at[i]]["prefix"] \notin DOMAIN fontname}

\* C6 amended: icon_stack over n resolvable names builds n layers in input order
\* with their options; a paint of a stacked icon draws exactly its n glyphs into the
\* same rect, in order, when every layer's prefix has a recorded family, and otherwise
\* draws the layers before the first one whose prefix has none, in order, and signals
\* KeyError.
C6_StackPaintsLayersInOrder ==
    /\ StackBuilt
    /\ \A k \in DOMAIN engines : engines[k].list =>
           \A rect \in RectHeights, mode \in Modes :
               LET r == CharIconEngine_paint(fontname, heap, engines[k], NewSurface,
                                             rect, mode)
               IN  IF Fontless(k) = {}
                   THEN r.exc = "" /\ DrawsLayers(k, r, rect, mode, Len(engines[k].at))
                   ELSE LET first == CHOOSE i \in Fontless(k) :
                                         \A j \in Fontless(k) : i <= j
                        IN  r.exc = "KeyError" /\ DrawsLayers(k, r, rect, mode, first - 1)

\* a stacked icon of two layers with different glyphs has just been painted with no
\* error
C6_Witness ==
    /\ last.op = "paint" /\ last.exc = ""
    /\ engines[last.icon].list
    /\ Len(engines[last.icon].at) = 2
    /\ heap[engines[last.icon].at[1]]["char"] # heap[engines[last.icon].at[2]]["char"]

\* C7: in every state, icon('custom.' + name) returns an icon bound to the painter
\* registered under name, which is not the default char painter, and the empty icon
\* when no painter is registered under name, whatever the charmaps hold;
\* set_custom_icon leaves name bound to the painter it was given; every paint of a
\* custom icon invokes the painter the icon is bound to; and no call changes the
\* painter an icon is bound to.
C7_CustomPainter ==
    /\ [](/\ \A name \in Names, kwargs \in Kwargs :
                LET r == icon(charmap, painters, heap, Dotted("custom", name), kwargs)
                IN  IF name \in DOMAIN painters
                    THEN /\ NonEmpty(r)
                         /\ r.engine.painter = painters[name]
                         /\ r.engine.painter # "CharIconPainter"
                    ELSE Empty(r)
          /\ \A name \in CustomNames, painter \in CustomPainters :
                set_custom_icon(painters, name, painter)[name] = painter
          /\ \A k \in DOMAIN engines : engines[k].painter \in CustomPainters =>
                \A rect \in RectHeights, mode \in Modes :
                    CharIconEngine_paint(fontname, heap, engines[k], NewSurface, rect,
                                         mode).invoked = engines[k].painter)
    /\ [][\A k \in DOMAIN engines \cap DOMAIN engines' :
              engines'[k].painter = engines[k].painter]_vars

\* a custom icon bound to P1 has just been painted after P2 was registered under the
\* same name, while a charmap is loaded under 'custom'
C7_Witness ==
    /\ last.op = "paint"
    /\ engines[last.icon].painter = "P1"
    /\ "x" \in DOMAIN painters /\ painters["x"] = "P2"
    /\ "custom" \in DOMAIN charmap

\* C9 as stated: whenever a paint by the default painter ends, with or without an
\* error, as many restores as saves were made and the surface has the pen and the
\* font it had before.
C9_SaveRestoreBalanced ==
    \A k \in DOMAIN engines : engines[k].painter = "CharIconPainter" =>
        \A rect \in RectHeights, mode \in Modes :
            LET s == CharIconEngine_paint(fontname, heap, engines[k], NewSurface, rect,
                                          mode).surface
            IN  /\ s.saves = s.restores
                /\ s.saved = <<>>
                /\ s.pen = NewSurface.pen
                /\ s.font = NewSurface.font

\* the addresses of the options dicts engine k holds
Held(k) == {engines[k].at[i] : i \in DOMAIN engines[k].at}

\* C10: in every state, the module's default options are as defined, no icon holds
\* the defaults dict, every layer of an icon has a dict of its own and no two icons
\* hold a common dict; and no call changes the painter or the options of an icon the
\* caller still holds.
C10_OptionsSnapshot ==
    /\ [](/\ heap[DefaultsAt] = _default_options
          /\ \A k \in DOMAIN engines :
                /\ Held(k) \subseteq DOMAIN heap \ {DefaultsAt}
                /\ Cardinality(Held(k)) = Len(engines[k].at)
                /\ \A j \in DOMAIN engines \ {k} : Held(j) \cap Held(k) = {})
    /\ [][\A k \in DOMAIN engines \cap DOMAIN engines' :
              /\ engines'[k] = engines[k]
              /\ \A a \in Held(k) : a \in DOMAIN heap' /\ heap'[a] = heap[a]]_vars

\* the caller holds a char icon and a stacked icon, and a font was just loaded
C10_Witness ==
    /\ last.op = "load_font" /\ last.exc = ""
    /\ \E k, j \in DOMAIN engines :
           /\ ~engines[k].list /\ engines[k].painter = "CharIconPainter"
           /\ engines[j].list

====
